---- MODULE Spec2Model ----
(***************************************************************************)
(* Document ingestion pipeline of document_query_system.                   *)
(*                                                                         *)
(* State: the Document table, the uploaded files on disk, the derived      *)
(* markdown artifacts, the Weaviate collection, and one frame per          *)
(* invocation of DocumentProcessingService.process_document holding the    *)
(* in-memory Document instance and the locals of the method.               *)
(* Every statement of process_document that touches shared state (a save,  *)
(* the conversion, stat, an add_object, the file deletion) is one action,  *)
(* so that invocations interleave as threads of the web server would.      *)
(***************************************************************************)
EXTENDS Bags, FiniteSets, Integers, Sequences, TLC

\* Number of invocations of process_document in one behaviour.
NumInvocations == 2

Invocations == 1..NumInvocations

\* Python's None, and a present optional value.
None == <<>>
Some(x) == <<x>>

Docs == {"d1", "d2"}

\* str(e) of the exception a failing stage raises; str(Exception()) is "".
ErrMsgs == {"", "boom"}

----------------------------------------------------------------------------
(* What the upload stored: the columns set by Document.objects.create.     *)

TenantOf(d) == IF d = "d1" THEN "t1" ELSE "t2"

\* basename of the stored upload, as stem and suffix (pathlib)
UploadName(d) ==
    IF d = "d1" THEN [stem |-> "report", suffix |-> ".PDF"]
                ELSE [stem |-> "notes", suffix |-> ".docx"]

\* get_upload_path: "<tenant id>/uploads/<filename>"
get_upload_path(d) == <<TenantOf(d), "uploads", UploadName(d)>>

\* str.lower() on the suffixes that occur
Lower(s) == IF s = ".PDF" THEN ".pdf" ELSE s

(* What docling makes of a readable file: the number of pages, the origin  *)
(* (absent for some formats) and the chunks the HybridChunker yields, each *)
(* with its contextualized text and the provenance of its doc_items        *)
(* (<<>> for an item without prov, <<page_no>> otherwise).                 *)
DocTable ==
    [size |-> 300, pages |-> 3,
     origin |-> Some([mimetype |-> "application/pdf", binary_hash |-> 77]),
     chunks |-> << [text |-> "intro", doc_items |-> << <<1>> >>],
                   [text |-> "table", doc_items |-> << <<>>, <<2>> >>] >>]

DocEmpty ==
    [size |-> 10, pages |-> 1, origin |-> None, chunks |-> << >>]

DocPlain ==
    [size |-> 20, pages |-> 0,
     origin |-> Some([mimetype |-> "text/plain", binary_hash |-> 5]),
     chunks |-> << [text |-> "plain", doc_items |-> << <<>> >>] >>]

FileContents == {DocTable, DocEmpty, DocPlain}

\* The uploads considered: a paginated PDF with a table, beside an empty
\* document or a one-block text without pages.
Uploads ==
    {u \in [Docs -> FileContents] : u["d1"] = DocTable /\ u["d2"] # DocTable}

\* Document row as created by the upload (models.Document defaults).
NewDocument(d) ==
    [id |-> d,
     tenant |-> TenantOf(d),
     original_file |-> Some(get_upload_path(d)),
     original_filename |-> UploadName(d),
     page_count |-> 0,
     status |-> "PENDING",
     metadata |-> None,
     error_message |-> None,
     processed_at |-> None]

Tenants == {"t1", "t2"}

\* The row of an upload named n by a user of tenant t (views.py 125-131,
\* get_upload_path).
RowOfUpload(d, t, n) ==
    [NewDocument(d) EXCEPT !.tenant = t,
                           !.original_file = Some(<<t, "uploads", n>>),
                           !.original_filename = n]

RowOfTenant(d, t) == RowOfUpload(d, t, UploadName(d))

Terminal == {"COMPLETED", "FAILED"}

\* WeaviateService.class_name
class_name == "DocumentChunk"

(* The users who upload: one member of each tenant, and two users without  *)
(* a tenant (CustomUser.tenant is nullable), one of them a superuser.      *)
Users == {"alice", "bob", "root", "guest"}

UserTenant(u) ==
    IF u = "alice" THEN Some("t1")
    ELSE IF u = "bob" THEN Some("t2")
    ELSE None

----------------------------------------------------------------------------
VARIABLES
    db,          \* Document table: id -> row
    fileExists,  \* uploaded file of the document is on disk
    content,     \* what the uploaded file holds (fixed at upload)
    artifacts,   \* markdown path -> id of the document whose text it holds
    index,       \* bag of objects in the DocumentChunk collection
    collections, \* names of the collections the Weaviate server holds
    now,         \* timezone.now(), a logical clock
    inv          \* invocation -> frame of process_document

vars == <<db, fileExists, content, artifacts, index, collections, now, inv>>

\* Frame of an invocation that has not been called yet.
IdleFrame ==
    [pc |-> "idle",
     user |-> None,                 \* request.user of the upload
     unhandled |-> None,            \* exception that left the view, or the
                                    \* constructor of the service, uncaught
     created |-> None,              \* id of the row the upload view created
     direct |-> FALSE,              \* a service method called on its own
     op |-> "none",                 \* the view method of a request on stored rows
     queryset |-> {},               \* ids of the rows get_queryset returned
     http |-> None,                 \* status of the Response of such a request
     document_id |-> None,
     tenant_id |-> None,            \* self.tenant_id
     doc |-> None,                  \* the in-memory Document
     conversion |-> None,           \* extract's local doc, before it returns
     docling_doc |-> None,
     markdown_path |-> None,
     image_dir |-> None,
     pages |-> 0,
     doc_metadata |-> None,
     chunks_with_pages |-> << >>,
     embeddings |-> << >>,
     i |-> 0,                       \* loop index of add_document_chunks
     client |-> "None",             \* vector_store._client
     e |-> None,                    \* the exception caught at line 359
     outcome |-> "none",            \* "returned" | "raised"
     calls |-> << >>]               \* the calls made so far, in order

\* The server before any upload: no row, no file.
Init ==
    /\ db = << >>
    /\ fileExists = [d \in Docs |-> FALSE]
    /\ content \in Uploads
    /\ artifacts = << >>
    /\ index = EmptyBag
    /\ collections \in {{}, {class_name}}
    /\ now = 1
    /\ inv = [p \in Invocations |-> IdleFrame]

\* The rows and files that uploads have stored (Document.objects.create,
\* views.py 125-131), none of them taken up by process_document yet.
StoredInit ==
    /\ db = [d \in Docs |-> NewDocument(d)]
    /\ fileExists = [d \in Docs |-> TRUE]
    /\ content \in Uploads
    /\ artifacts = << >>
    /\ index = EmptyBag
    /\ collections \in {{}, {class_name}}
    /\ now = 1
    /\ inv = [p \in Invocations |-> IdleFrame]

----------------------------------------------------------------------------
(* Helpers over frames.                                                    *)

DocOf(p) == inv[p].document_id[1]

InFlight(p) == inv[p].pc \notin {"idle", "ready", "done"}

\* A save whose status write is not confined to the instance's own row.
saveUnfiltered(table, instance) ==
    [d \in DOMAIN table |->
        IF d = instance.id THEN instance
        ELSE [table[d] EXCEPT !.status = instance.status]]

\* Model.save(): every column of the row is written from the instance.
save(table, instance) == [table EXCEPT ![instance.id] = instance]

\* The frame of an invocation that is over: its locals are gone.
Ended(f, how) ==
    [IdleFrame EXCEPT !.pc = "done", !.outcome = how,
                      !.user = f.user,
                      !.created = f.created,
                      !.client = f.client,
                      !.document_id = f.document_id,
                      !.tenant_id = f.tenant_id]

\* The frame after the call named c was made.
Called(f, c) == [f EXCEPT !.calls = Append(@, c)]

\* Control passes to the except clause with exception message m.
Raise(f, m) == [f EXCEPT !.pc = "except", !.e = Some(m)]

\* An exception leaves add_document_chunks: to the except clause of
\* process_document, or to the caller of a call made on its own.
RaiseFromStore(f, m) ==
    IF f.direct
    THEN [f EXCEPT !.pc = "done", !.outcome = "raised", !.e = Some(m)]
    ELSE Raise(f, m)

----------------------------------------------------------------------------
(* Pure parts of the pipeline.                                             *)

\* ExtractionService.extract: where the markdown and the images go.
markdown_output_path(tenant_id, file_path) ==
    <<tenant_id, "markdown", file_path[3].stem>>

image_dir_of(tenant_id) == <<tenant_id, "images">>

\* process_document, lines 326-341: pages and the metadata map.
AssembleMetadata(file_path, st_size, markdown_path, image_dir, docling_doc) ==
    LET base == [extension |-> Lower(file_path[3].suffix),
                 source |-> "upload",
                 file_size |-> st_size,
                 markdown_path |-> markdown_path,
                 image_dir_path |-> image_dir]
    IN  IF docling_doc.origin # None
        THEN base @@ [mimetype |-> docling_doc.origin[1].mimetype,
                      binary_hash |-> docling_doc.origin[1].binary_hash]
        ELSE base

\* chunk_docling_document, lines 174-180: page of the first doc_item that
\* has provenance, None when no item has.
RECURSIVE FirstProvPage(_)
FirstProvPage(doc_items) ==
    IF doc_items = << >> THEN None
    ELSE IF Head(doc_items) # << >> THEN Some(Head(doc_items)[1])
    ELSE FirstProvPage(Tail(doc_items))

\* A chunker that yields one blank chunk for a document without chunks.
chunk_docling_documentNeverEmpty(docling_doc) ==
    IF Len(docling_doc.chunks) = 0
    THEN <<[text |-> "", page_number |-> None]>>
    ELSE [k \in 1..Len(docling_doc.chunks) |->
             [text |-> docling_doc.chunks[k].text,
              page_number |-> FirstProvPage(docling_doc.chunks[k].doc_items)]]

\* chunk_docling_document, lines 152-186: one ChunkWithPage per chunk the
\* chunker yields, in order.
chunk_docling_document(docling_doc) ==
    [k \in 1..Len(docling_doc.chunks) |->
        [text |-> docling_doc.chunks[k].text,
         page_number |-> FirstProvPage(docling_doc.chunks[k].doc_items)]]

\* The encoder: a fixed vector per text.
EmbedText(t) ==
    IF t = "intro" THEN <<1, 0>>
    ELSE IF t = "table" THEN <<0, 1>>
    ELSE <<1, 1>>

\* The encoder handing its vectors back in reverse order.
embed_chunksReversed(chunk_texts) ==
    [k \in 1..Len(chunk_texts) |->
        EmbedText(chunk_texts[Len(chunk_texts) + 1 - k])]

embed_chunks(chunk_texts) ==
    [k \in 1..Len(chunk_texts) |-> EmbedText(chunk_texts[k])]

\* The object tagged with one fixed tenant instead of the document's.
ChunkObjectSharedTenant(document, chunk_data, vector) ==
    [tenant_id |-> "t1",
     document_id |-> document.id,
     content |-> chunk_data.text,
     page_number |-> chunk_data.page_number,
     original_filename |-> document.original_filename,
     vector |-> vector]

\* add_document_chunks, lines 293-300: the object added for chunks[i].
ChunkObject(document, chunk_data, vector) ==
    [tenant_id |-> document.tenant,
     document_id |-> document.id,
     content |-> chunk_data.text,
     page_number |-> chunk_data.page_number,
     original_filename |-> document.original_filename,
     vector |-> vector]

\* The success path without the assignment of page_count.
CompletedInstanceNoPageCount(doc, t, pages, doc_metadata) ==
    [doc EXCEPT !.status = "COMPLETED",
                !.processed_at = Some(t),
                !.metadata = doc_metadata]

\* line 318: the instance with status PROCESSING
ProcessingInstance(doc) == [doc EXCEPT !.status = "PROCESSING"]

\* lines 354-357: the instance after the four assignments of the success path
CompletedInstance(doc, t, pages, doc_metadata) ==
    [doc EXCEPT !.status = "COMPLETED",
                !.processed_at = Some(t),
                !.page_count = pages,
                !.metadata = doc_metadata]

\* lines 360-361: the instance after the two assignments of the handler
FailedInstance(doc, e) ==
    [doc EXCEPT !.status = "FAILED", !.error_message = e]

\* Number of objects of the collection tagged with document id d.
RecordsOf(d) ==
    LET objs == {o \in BagToSet(index) : o.document_id = d}
        RECURSIVE Sum(_)
        Sum(S) == IF S = {} THEN 0
                  ELSE LET o == CHOOSE x \in S : TRUE
                       IN CopiesIn(o, index) + Sum(S \ {o})
    IN  Sum(objs)

----------------------------------------------------------------------------
(* process_document, one action per statement that touches shared state.   *)

(* _connect, lines 242-256, as the set of its outcomes from a given        *)
(* _client: with no client a new one is assigned and connect() is tried,   *)
(* and the client stays assigned when connect() raises err; with a client  *)
(* of any kind nothing is done.  _close, lines 258-261.                    *)
connect(client) ==
    IF client = "None"
    THEN {[client |-> "connected", err |-> None]}
         \cup {[client |-> "unconnected", err |-> Some(m)] : m \in ErrMsgs}
    ELSE {[client |-> client, err |-> None]}

close(client) == "None"

(* services.py 308-312 and 237-240: the service is constructed for      *)
(* tenant t; WeaviateService.__init__ runs _create_schema_if_not_exists   *)
(* (270-284) in a scope of its own: connect, ask whether the collection   *)
(* exists, and create it when it does not.  Configure, Property and       *)
(* DataType are not imported (lines 1-38), so the create branch raises    *)
(* NameError; __exit__ closes the client.  The frames the construction    *)
(* can leave, the exception in unhandled when one leaves the constructor. *)
Constructed(f, t) ==
    LET failed(g, m) == [g EXCEPT !.pc = "done", !.unhandled = Some(m)]
        after(r) ==
            LET g == [f EXCEPT !.tenant_id = Some(t), !.client = r.client]
                h == [g EXCEPT !.client = close(g.client)]
            IN  IF r.err # None THEN failed(g, r.err[1])
                ELSE IF class_name \in collections
                THEN [h EXCEPT !.pc = "ready"]
                ELSE failed(h, "NameError")
    IN  {after(r) : r \in connect(f.client)}

\* DocumentProcessingService(tenant_id=t), called on its own.
ServiceConstruct(p, t) ==
    /\ inv[p].pc = "idle"
    /\ \A q \in Invocations : q < p => inv[q].pc # "idle"
    /\ \E g \in Constructed(inv[p], t) : inv' = [inv EXCEPT ![p] = g]
    /\ UNCHANGED <<collections, db, fileExists, content, artifacts, index, now>>

(* views.py 96: the upload view constructs the service with               *)
(* request.user.tenant.id, which raises AttributeError for a user without *)
(* a tenant.  The view catches none of the exceptions of this line.       *)
Construct(p, u) ==
    /\ inv[p].pc = "idle"
    /\ \A q \in Invocations : q < p => inv[q].pc # "idle"
    /\ LET f == [inv[p] EXCEPT !.user = Some(u)]
       IN  IF UserTenant(u) = None
           THEN inv' = [inv EXCEPT ![p] =
                           [f EXCEPT !.pc = "done",
                                     !.unhandled = Some("AttributeError")]]
           ELSE \E g \in Constructed(f, UserTenant(u)[1]) :
                    inv' = [inv EXCEPT ![p] = g]
    /\ UNCHANGED <<collections, db, fileExists, content, artifacts, index, now>>

(* views.py 119-131: Document.objects.create stores the upload as a new   *)
(* row with a fresh id, of the tenant of request.user, and its file.      *)
Create(p, d) ==
    /\ inv[p].pc = "ready"
    /\ inv[p].user # None
    /\ inv[p].created = None
    /\ d \notin DOMAIN db
    /\ db' = [x \in DOMAIN db \cup {d} |->
                 IF x = d
                 THEN RowOfUpload(d, UserTenant(inv[p].user[1])[1],
                                  UploadName(d))
                 ELSE db[x]]
    /\ fileExists' = [fileExists EXCEPT ![d] = TRUE]
    /\ inv' = [inv EXCEPT ![p] = [@ EXCEPT !.created = Some(d)]]
    /\ UNCHANGED <<collections, content, artifacts, index, now>>

\* process_document taking up a document only while it is PENDING and no
\* other invocation holds it.
GetOnlyPending(p, d) ==
    /\ inv[p].pc = "ready"
    /\ \A q \in Invocations : q < p => inv[q].pc \notin {"idle", "ready"}
    /\ db[d].status = "PENDING"
    /\ inv' = [inv EXCEPT ![p] = [@ EXCEPT !.pc = "processing",
                                           !.document_id = Some(d),
                                           !.doc = db[d]]]
    /\ UNCHANGED <<collections, db, fileExists, content, artifacts, index, now>>

\* services.py 314-315: process_document(d) is called and does
\* doc = Document.objects.get(id=document_id), whatever the tenant and the
\* status of the row; get raises DoesNotExist, outside the try, when there
\* is no such row.  Invocations are numbered in call order.
Get(p, d) ==
    /\ inv[p].pc = "ready"
    /\ \A q \in Invocations : q < p => inv[q].pc \notin {"idle", "ready"}
    /\ inv' = [inv EXCEPT ![p] =
                  IF d \in DOMAIN db
                  THEN [@ EXCEPT !.pc = "processing",
                                 !.document_id = Some(d),
                                 !.doc = db[d]]
                  ELSE [@ EXCEPT !.pc = "done",
                                 !.document_id = Some(d),
                                 !.outcome = "raised"]]
    /\ UNCHANGED <<collections, db, fileExists, content, artifacts, index, now>>

\* views.py 133-135: the upload view calls process_document with the id
\* of the row it has created.
Call(p, d) ==
    /\ inv[p].created = Some(d)
    /\ Get(p, d)

\* status = PROCESSING assigned but not saved before the pipeline starts.
SaveProcessingUnsaved(p) ==
    /\ inv[p].pc = "processing"
    /\ inv' = [inv EXCEPT ![p] =
                  [@ EXCEPT !.pc = "extract",
                            !.doc = [@ EXCEPT !.status = "PROCESSING"]]]
    /\ UNCHANGED <<collections, db, fileExists, content, artifacts, index, now>>

\* lines 318-319: status = PROCESSING; save()
SaveProcessing(p) ==
    /\ inv[p].pc = "processing"
    /\ LET f == Called([inv[p] EXCEPT !.doc = ProcessingInstance(@)], "save")
       IN  \/ /\ db' = save(db, f.doc)
              /\ inv' = [inv EXCEPT ![p] = [f EXCEPT !.pc = "extract"]]
           \/ \E m \in ErrMsgs :
              /\ db' = db
              /\ inv' = [inv EXCEPT ![p] = Raise(f, m)]
    /\ UNCHANGED <<collections, fileExists, content, artifacts, index, now>>

\* extract tried a second time when the first try fails.
ExtractRetriesOnce(p) ==
    /\ inv[p].pc = "extract"
    /\ LET f == Called(inv[p], "extract")
           d == DocOf(p)
       IN  \/ /\ fileExists[d]
              /\ inv' = [inv EXCEPT ![p] =
                            [f EXCEPT !.pc = "save_markdown",
                                      !.conversion = Some(content[d])]]
           \/ \E m \in ErrMsgs :
              inv' = [inv EXCEPT ![p] =
                         IF Len(inv[p].calls) < 2 THEN f ELSE Raise(f, m)]
    /\ UNCHANGED <<collections, db, fileExists, content, artifacts, index, now>>

\* lines 321-324 and 90-103: extract is called and converts the upload:
\* converter.convert reads the file.  A file that is gone cannot be
\* converted; a file that is there may fail.
Extract(p) ==
    /\ inv[p].pc = "extract"
    /\ LET f == Called(inv[p], "extract")
           d == DocOf(p)
       IN  \/ /\ fileExists[d]
              /\ inv' = [inv EXCEPT ![p] =
                            [f EXCEPT !.pc = "save_markdown",
                                      !.conversion = Some(content[d])]]
           \/ \E m \in ErrMsgs :
              inv' = [inv EXCEPT ![p] = Raise(f, m)]
    /\ UNCHANGED <<collections, db, fileExists, content, artifacts, index, now>>

\* lines 105-113: save_as_markdown writes the converted document to the
\* markdown path, whatever has become of the upload since, and extract
\* returns; lines 115-118 pass a failure on.
SaveMarkdown(p) ==
    /\ inv[p].pc = "save_markdown"
    /\ LET f == [inv[p] EXCEPT !.conversion = None]
           d == DocOf(p)
           file_path == f.doc.original_file[1]
           out == markdown_output_path(f.tenant_id[1], file_path)
       IN  \/ /\ artifacts' = [x \in DOMAIN artifacts \cup {out} |->
                                  IF x = out THEN d ELSE artifacts[x]]
              /\ inv' = [inv EXCEPT ![p] =
                            [f EXCEPT !.pc = "stat",
                                      !.docling_doc = inv[p].conversion,
                                      !.markdown_path = Some(out),
                                      !.image_dir =
                                          Some(image_dir_of(f.tenant_id[1]))]]
           \/ \E m \in ErrMsgs :
              /\ artifacts' = artifacts
              /\ inv' = [inv EXCEPT ![p] = Raise(f, m)]
    /\ UNCHANGED <<collections, db, fileExists, content, index, now>>

\* lines 326-341: pages (326), then the metadata with
\* file_path.stat().st_size (330), which raises when the file is gone.
Stat(p) ==
    /\ inv[p].pc = "stat"
    /\ LET d == DocOf(p)
           dl == inv[p].docling_doc[1]
           f == Called([inv[p] EXCEPT !.pages = dl.pages], "stat")
       IN  \/ /\ fileExists[d]
              /\ inv' = [inv EXCEPT ![p] =
                            [f EXCEPT !.pc = "chunk",
                                      !.doc_metadata =
                                          AssembleMetadata(
                                              f.doc.original_file[1],
                                              content[d].size,
                                              f.markdown_path[1],
                                              f.image_dir[1], dl)]]
           \/ \E m \in ErrMsgs :
              inv' = [inv EXCEPT ![p] = Raise(f, m)]
    /\ UNCHANGED <<collections, db, fileExists, content, artifacts, index, now>>

\* lines 343-345: chunks_with_pages = chunk_docling_document(docling_doc)
Chunk(p) ==
    /\ inv[p].pc = "chunk"
    /\ LET f == Called(inv[p], "chunk_docling_document")
       IN  \/ inv' = [inv EXCEPT ![p] =
                         [f EXCEPT !.pc = "embed",
                                   !.chunks_with_pages =
                                       chunk_docling_document(
                                           f.docling_doc[1])]]
           \/ \E m \in ErrMsgs :
              inv' = [inv EXCEPT ![p] = Raise(f, m)]
    /\ UNCHANGED <<collections, db, fileExists, content, artifacts, index, now>>

\* The encoder's failure noted but not raised: the pipeline goes on.
EmbedSwallowsFailure(p) ==
    /\ inv[p].pc = "embed"
    /\ LET f == Called(inv[p], "embed_chunks")
           chunk_texts == [k \in 1..Len(f.chunks_with_pages) |->
                              f.chunks_with_pages[k].text]
       IN  \/ inv' = [inv EXCEPT ![p] =
                         [f EXCEPT !.pc = "connect",
                                   !.embeddings = embed_chunks(chunk_texts)]]
           \/ \E m \in ErrMsgs :
              inv' = [inv EXCEPT ![p] = [f EXCEPT !.pc = "connect",
                                                  !.e = Some(m)]]
    /\ UNCHANGED <<collections, db, fileExists, content, artifacts, index, now>>

\* lines 346-347: embeddings = embed_chunks([c.text for c in chunks])
Embed(p) ==
    /\ inv[p].pc = "embed"
    /\ LET f == Called(inv[p], "embed_chunks")
           chunk_texts == [k \in 1..Len(f.chunks_with_pages) |->
                              f.chunks_with_pages[k].text]
       IN  \/ inv' = [inv EXCEPT ![p] =
                         [f EXCEPT !.pc = "connect",
                                   !.embeddings = embed_chunks(chunk_texts)]]
           \/ \E m \in ErrMsgs :
              inv' = [inv EXCEPT ![p] = Raise(f, m)]
    /\ UNCHANGED <<collections, db, fileExists, content, artifacts, index, now>>

\* line 349, __enter__ and _connect (242-256): the client is assigned
\* before connect() is tried, and stays assigned when connect() raises.
Connect(p) ==
    /\ inv[p].pc = "connect"
    /\ \E r \in connect(inv[p].client) :
          LET f == [Called(inv[p], "connect") EXCEPT !.client = r.client]
          IN  inv' = [inv EXCEPT ![p] =
                         IF r.err # None THEN Raise(f, r.err[1])
                         ELSE [f EXCEPT !.pc = "call_add"]]
    /\ UNCHANGED <<collections, db, fileExists, content, artifacts, index, now>>

\* lines 289-291: add_document_chunks enters a scope of its own; _connect
\* connects only when there is no client, and returns the client it finds.
EnterAddChunks(p) ==
    /\ inv[p].pc = "call_add"
    /\ \E r \in connect(inv[p].client) :
          LET f == [Called(inv[p], "add_document_chunks")
                       EXCEPT !.i = 0, !.client = r.client]
          IN  inv' = [inv EXCEPT ![p] =
                         IF r.err # None THEN RaiseFromStore(f, r.err[1])
                         ELSE [f EXCEPT !.pc = "batch"]]
    /\ UNCHANGED <<collections, db, fileExists, content, artifacts, index, now>>

\* lines 292-300: one turn of the loop.  The argument embeddings[i] is
\* evaluated before add_object is called and raises IndexError when there
\* is no i-th vector: add_object is not called then.  An object that was
\* added stays in the collection; an exception leaves the scopes, and
\* __exit__ closes.
AddObject(p) ==
    /\ inv[p].pc = "batch"
    /\ inv[p].i < Len(inv[p].chunks_with_pages)
    /\ LET f == Called(inv[p], "add_object")
           k == f.i + 1
           closed == [f EXCEPT !.client = close(f.client)]
       IN  IF k > Len(f.embeddings)
           THEN /\ index' = index
                /\ inv' = [inv EXCEPT ![p] =
                              RaiseFromStore(
                                  [inv[p] EXCEPT !.client = close(@)],
                                  "list index out of range")]
           ELSE \/ /\ index' = index (+) SetToBag({
                                   ChunkObject(f.doc, f.chunks_with_pages[k],
                                               f.embeddings[k])})
                   /\ inv' = [inv EXCEPT ![p] = [f EXCEPT !.i = k]]
                \/ \E m \in ErrMsgs :
                   /\ index' = index
                   /\ inv' = [inv EXCEPT ![p] = RaiseFromStore(closed, m)]
    /\ UNCHANGED <<collections, db, fileExists, content, artifacts, now>>

\* end of the loop: the batch context flushes (and may raise), then the
\* scope of add_document_chunks exits: __exit__ calls _close (258-261,
\* 267-268), which closes the client whoever else still uses it.
ExitAddChunks(p) ==
    /\ inv[p].pc = "batch"
    /\ inv[p].i = Len(inv[p].chunks_with_pages)
    /\ LET f == [inv[p] EXCEPT !.client = close(inv[p].client)]
       IN  \/ inv' = [inv EXCEPT ![p] =
                         IF f.direct
                         THEN [f EXCEPT !.pc = "done", !.outcome = "returned"]
                         ELSE [f EXCEPT !.pc = "exit_store"]]
           \/ \E m \in ErrMsgs :
              inv' = [inv EXCEPT ![p] = RaiseFromStore(f, m)]
    /\ UNCHANGED <<collections, db, fileExists, content, artifacts, index, now>>

\* lines 349-352: the scope of process_document exits; _close finds no
\* client left to close.
ExitStore(p) ==
    /\ inv[p].pc = "exit_store"
    /\ inv' = [inv EXCEPT ![p] = [@ EXCEPT !.pc = "complete",
                                           !.client = close(@)]]
    /\ UNCHANGED <<collections, db, fileExists, content, artifacts, index, now>>

\* lines 354-358: the four assignments and the final save()
Complete(p) ==
    /\ inv[p].pc = "complete"
    /\ LET f == Called([inv[p] EXCEPT !.doc =
                           CompletedInstance(@, now, inv[p].pages,
                                             inv[p].doc_metadata)],
                       "save")
       IN  \/ /\ db' = save(db, f.doc)
              /\ inv' = [inv EXCEPT ![p] = Ended(f, "returned")]
           \/ \E m \in ErrMsgs :
              /\ db' = db
              /\ inv' = [inv EXCEPT ![p] = Raise(f, m)]
    /\ now' = now + 1
    /\ UNCHANGED <<collections, fileExists, content, artifacts, index>>

\* lines 359-362: status = FAILED; error_message = str(e); save().
\* Nothing catches what the handler's own save raises: that exception
\* leaves process_document with the row as it was, lines 363-364 not run.
Except(p) ==
    /\ inv[p].pc = "except"
    /\ LET f == Called([inv[p] EXCEPT !.doc = FailedInstance(@, inv[p].e)],
                       "save")
       IN  \/ /\ db' = save(db, f.doc)
              /\ inv' = [inv EXCEPT ![p] = [f EXCEPT !.pc = "delete"]]
           \/ /\ db' = db
              /\ inv' = [inv EXCEPT ![p] = Ended(f, "raised")]
    /\ UNCHANGED <<collections, fileExists, content, artifacts, index, now>>

\* line 363: doc.original_file.delete(save=False).  When the storage
\* raises, the file stays and that exception leaves process_document,
\* line 364 not run.
DeleteFile(p) ==
    /\ inv[p].pc = "delete"
    /\ LET f == Called(inv[p], "delete")
       IN  \/ /\ fileExists' = [fileExists EXCEPT ![DocOf(p)] = FALSE]
              /\ inv' = [inv EXCEPT ![p] =
                            [f EXCEPT !.pc = "raise",
                                      !.doc.original_file = None]]
           \/ /\ fileExists' = fileExists
              /\ inv' = [inv EXCEPT ![p] = Ended(f, "raised")]
    /\ UNCHANGED <<collections, db, content, artifacts, index, now>>

\* line 364: raise e
Reraise(p) ==
    /\ inv[p].pc = "raise"
    /\ inv' = [inv EXCEPT ![p] = Ended(inv[p], "raised")]
    /\ UNCHANGED <<collections, db, fileExists, content, artifacts, index, now>>

Step(p) ==
    \/ SaveProcessing(p)
    \/ Extract(p)
    \/ SaveMarkdown(p)
    \/ Stat(p)
    \/ Chunk(p)
    \/ Embed(p)
    \/ Connect(p)
    \/ EnterAddChunks(p)
    \/ AddObject(p)
    \/ ExitAddChunks(p)
    \/ ExitStore(p)
    \/ Complete(p)
    \/ Except(p)
    \/ DeleteFile(p)
    \/ Reraise(p)

\* The upload requests of the server (DocumentViewSet.create): they run
\* as the server's threads do, nothing orders them, and each processes
\* the row it has created itself.
Next ==
    \/ \E p \in Invocations, u \in Users : Construct(p, u)
    \/ \E p \in Invocations, d \in Docs : Create(p, d)
    \/ \E p \in Invocations, d \in Docs : Call(p, d)
    \/ \E p \in Invocations : Step(p)

Spec == Init /\ [][Next]_vars

(* process_document called on stored documents, each call on a service    *)
(* constructed for the tenant of its document, and one call per document  *)
(* at a time: a document is taken up, for the first time or again, only   *)
(* when no invocation on it is in flight.                                  *)
SeqGet(p, d) ==
    /\ d \in DOMAIN db
    /\ Some(db[d].tenant) = inv[p].tenant_id
    /\ \A q \in Invocations : InFlight(q) => DocOf(q) # d
    /\ Get(p, d)

SeqNext ==
    \/ \E p \in Invocations, t \in Tenants : ServiceConstruct(p, t)
    \/ \E p \in Invocations, d \in Docs : SeqGet(p, d)
    \/ \E p \in Invocations : Step(p)

SeqSpec == StoredInit /\ [][SeqNext]_vars

\* Calls of process_document that all concern one stored document, a
\* one-block text, on services of its tenant and a server that holds the
\* collection: nothing orders or excludes the invocations on the document.
RaceDoc == "d2"

RaceInit ==
    /\ StoredInit
    /\ collections = {class_name}
    /\ content \in {c \in Uploads : c[RaceDoc] = DocPlain}

RaceConstruct(p, t) ==
    /\ t = TenantOf(RaceDoc)
    /\ ServiceConstruct(p, t)

RaceGet(p, d) ==
    /\ d = RaceDoc
    /\ Get(p, d)

RaceNext ==
    \/ \E p \in Invocations, t \in Tenants : RaceConstruct(p, t)
    \/ \E p \in Invocations, d \in Docs : RaceGet(p, d)
    \/ \E p \in Invocations : Step(p)

RaceSpec == RaceInit /\ [][RaceNext]_vars

(* add_document_chunks called on its own (lines 286-300), with a document, *)
(* a list of chunks and a list of embeddings of any lengths up to the      *)
(* bounds below.                                                           *)
MaxChunks == 2
MaxVectors == 3

BoundedSeq(S, n) == UNION {[1..k -> S] : k \in 0..n}

ChunkPool ==
    LET all == chunk_docling_document(DocTable)
               \o chunk_docling_document(DocPlain)
    IN  {all[k] : k \in 1..Len(all)}

VectorPool == {EmbedText(c.text) : c \in ChunkPool}

UpsertInit ==
    /\ db = [d \in Docs |-> NewDocument(d)]
    /\ fileExists = [d \in Docs |-> TRUE]
    /\ content \in Uploads
    /\ artifacts = << >>
    /\ index = EmptyBag
    /\ collections = {class_name}
    /\ now = 1
    /\ \E d \in Docs, chunks \in BoundedSeq(ChunkPool, MaxChunks),
          embeddings \in BoundedSeq(VectorPool, MaxVectors) :
          inv = [p \in Invocations |->
                    IF p = 1
                    THEN [IdleFrame EXCEPT !.pc = "call_add",
                                           !.direct = TRUE,
                                           !.document_id = Some(d),
                                           !.doc = db[d],
                                           !.chunks_with_pages = chunks,
                                           !.embeddings = embeddings]
                    ELSE IdleFrame]

UpsertNext ==
    \/ \E p \in Invocations : EnterAddChunks(p)
    \/ \E p \in Invocations : AddObject(p)
    \/ \E p \in Invocations : ExitAddChunks(p)

UpsertSpec == UpsertInit /\ [][UpsertNext]_vars

(* The views on stored documents (views.py 21-90).  The rows are drawn     *)
(* with any tenant; a destroyed row leaves the table.                      *)
\* get_queryset returning every row, whoever asks.
get_querysetUnfiltered(u) == DOMAIN db

\* get_queryset, lines 21-27: no rows for a user without a tenant, else
\* the rows of the user's tenant.
get_queryset(u) ==
    IF UserTenant(u) = None THEN {}
    ELSE {d \in DOMAIN db : db[d].tenant = UserTenant(u)[1]}

Ops == {"list", "retrieve", "update", "destroy"}

QueryInit ==
    /\ \E t \in [Docs -> Tenants] : db = [d \in Docs |-> RowOfTenant(d, t[d])]
    /\ fileExists = [d \in Docs |-> TRUE]
    /\ content \in Uploads
    /\ artifacts = << >>
    /\ index = EmptyBag
    /\ collections = {class_name}
    /\ now = 1
    /\ inv = [p \in Invocations |-> IdleFrame]

(* list (29-45) serialises the queryset and then reads                     *)
(* request.user.tenant.id, which raises AttributeError for a user without  *)
(* a tenant.  retrieve, update and destroy (47-90) call get_object, which  *)
(* looks pk up in the queryset and answers 404 when it is not there;       *)
(* retrieve answers with the row, update and destroy go on with the        *)
(* instance they fetched.                                                  *)
Query(p, u, op, pk) ==
    /\ inv[p].pc = "idle"
    /\ \A q \in Invocations : q < p => inv[q].pc # "idle"
    /\ LET qs == get_queryset(u)
           f == [inv[p] EXCEPT !.pc = "done", !.user = Some(u), !.op = op,
                               !.queryset = qs]
       IN  inv' = [inv EXCEPT ![p] =
                      IF op = "list"
                      THEN IF UserTenant(u) = None
                           THEN [f EXCEPT !.unhandled = Some("AttributeError")]
                           ELSE [f EXCEPT !.http = Some(200)]
                      ELSE IF pk \notin qs THEN [f EXCEPT !.http = Some(404)]
                      ELSE IF op = "retrieve" THEN [f EXCEPT !.http = Some(200)]
                      ELSE [f EXCEPT !.pc = "write", !.doc = db[pk]]]
    /\ UNCHANGED <<collections, db, fileExists, content, artifacts, index, now>>

(* update, line 67: every serializer field is read-only, so                *)
(* serializer.save() changes no attribute and saves the instance as it     *)
(* was fetched: Model.save() writes every column, and inserts the row when *)
(* it is no longer there.  destroy, line 85: perform_destroy deletes the   *)
(* row of the instance, if it is still there.                              *)
QueryWrite(p) ==
    /\ inv[p].pc = "write"
    /\ LET instance == inv[p].doc
           f == [inv[p] EXCEPT !.pc = "done", !.doc = None]
       IN  IF inv[p].op = "update"
           THEN /\ db' = [d \in DOMAIN db \cup {instance.id} |->
                             IF d = instance.id THEN instance ELSE db[d]]
                /\ inv' = [inv EXCEPT ![p] = [f EXCEPT !.http = Some(200)]]
           ELSE /\ db' = [d \in DOMAIN db \ {instance.id} |-> db[d]]
                /\ inv' = [inv EXCEPT ![p] = [f EXCEPT !.http = Some(204)]]
    /\ UNCHANGED <<collections, fileExists, content, artifacts, index, now>>

QueryNext ==
    \/ \E p \in Invocations, u \in Users, op \in Ops, pk \in Docs :
          Query(p, u, op, pk)
    \/ \E p \in Invocations : QueryWrite(p)

QuerySpec == QueryInit /\ [][QueryNext]_vars

(* extract called for each stored document (services.py 79-118), the rows  *)
(* drawn with any tenant and any of the names below.  The storage gives    *)
(* two uploads of one tenant different names, so the stored names of one   *)
(* tenant differ, in stem or in suffix.                                    *)
UploadNames ==
    {[stem |-> "report", suffix |-> ".PDF"],
     [stem |-> "report", suffix |-> ".docx"],
     [stem |-> "notes", suffix |-> ".docx"]}

\* the document the p-th call is for
DocAt(p) == IF p = 1 THEN "d1" ELSE "d2"

ArtifactInit ==
    /\ \E t \in [Docs -> Tenants], n \in [Docs -> UploadNames] :
          /\ \A c, d \in Docs : (c # d /\ t[c] = t[d]) => n[c] # n[d]
          /\ db = [d \in Docs |-> RowOfUpload(d, t[d], n[d])]
    /\ fileExists = [d \in Docs |-> TRUE]
    /\ content \in Uploads
    /\ artifacts = << >>
    /\ index = EmptyBag
    /\ collections = {class_name}
    /\ now = 1
    /\ inv = [p \in Invocations |->
                 [IdleFrame EXCEPT !.pc = "extract",
                                   !.direct = TRUE,
                                   !.document_id = Some(DocAt(p)),
                                   !.tenant_id = Some(db[DocAt(p)].tenant),
                                   !.doc = db[DocAt(p)]]]

ArtifactNext ==
    \/ \E p \in Invocations : Extract(p)
    \/ \E p \in Invocations : SaveMarkdown(p)

ArtifactSpec == ArtifactInit /\ [][ArtifactNext]_vars

(* DocumentProcessingService constructed for any tenant (308-312) and      *)
(* process_document called on it with the id of any stored document       *)
(* (314-315), one call per document at a time.                             *)
ServiceInit ==
    /\ StoredInit
    /\ collections = {class_name}

ServiceGet(p, d) ==
    /\ \A q \in Invocations : InFlight(q) => DocOf(q) # d
    /\ Get(p, d)

ServiceNext ==
    \/ \E p \in Invocations, t \in Tenants : ServiceConstruct(p, t)
    \/ \E p \in Invocations, d \in Docs : ServiceGet(p, d)
    \/ \E p \in Invocations : Step(p)

ServiceSpec == ServiceInit /\ [][ServiceNext]_vars

----------------------------------------------------------------------------
(* Properties.                                                             *)

(* The HTTP status of the Response that DocumentViewSet.create returns for *)
(* a finished request, None when an exception left the view instead: the   *)
(* 400 of the tenant check (99-117, after line 96), the 500 of the except  *)
(* clause (136-146), the 201 of the normal end (151-161).                  *)
response(f) ==
    IF f.unhandled # None THEN None
    ELSE IF f.tenant_id = None THEN Some(400)
    ELSE IF f.outcome = "raised" THEN Some(500)
    ELSE Some(201)

Started(p) == inv[p].document_id # None

Over(p) == Started(p) /\ inv[p].pc = "done"

\* p is the most recent invocation on its document.
LastOn(p) ==
    /\ Started(p)
    /\ \A q \in Invocations :
          (q > p /\ Started(q)) => DocOf(q) # DocOf(p)

\* Number of chunks the chunker yields for the upload of d.
ChunkCount(d) == Len(chunk_docling_document(content[d]))

\* pcs after the save of PROCESSING and before the final status write
MidPipeline ==
    {"extract", "save_markdown", "stat", "chunk", "embed", "connect",
     "call_add", "batch", "exit_store", "complete"}

\* pcs of the except clause
InHandler == {"except", "delete", "raise"}

\* C1: once an invocation has returned or raised, and until the document
\* is taken up again, the persisted status is COMPLETED or FAILED.
C1_FinalStatusTerminal ==
    \A p \in Invocations :
        (Over(p) /\ LastOn(p)) => db[DocOf(p)].status \in Terminal

\* C2: a document no invocation has taken up is PENDING, and no step
\* changes a persisted status that is COMPLETED or FAILED.
C2_TerminalNeverLeft ==
    /\ [](\A d \in Docs :
            (\A p \in Invocations : Started(p) => DocOf(p) # d)
                => db[d].status = "PENDING")
    /\ [][\A d \in Docs :
            db[d].status \in Terminal => db'[d].status = db[d].status]_vars

\* C3: in every persisted state processed_at is set exactly when the
\* status is COMPLETED.
C3_ProcessedAtIffCompleted ==
    \A d \in Docs :
        (db[d].processed_at # None) <=> (db[d].status = "COMPLETED")

\* C4: in every persisted state error_message is non-null exactly when the
\* status is FAILED.
C4_ErrorMessageIffFailed ==
    \A d \in Docs :
        (db[d].error_message # None) <=> (db[d].status = "FAILED")

\* C5: after an invocation in which a stage failed, the status is FAILED,
\* error_message is a non-empty text, the uploaded file is gone and the
\* Document row is still there.
C5_FailureLeavesFailedMessageNoFile ==
    \A p \in Invocations :
        (Over(p) /\ inv[p].outcome = "raised" /\ LastOn(p)) =>
            /\ DocOf(p) \in DOMAIN db
            /\ db[DocOf(p)].status = "FAILED"
            /\ db[DocOf(p)].error_message \notin {None, Some("")}
            /\ ~fileExists[DocOf(p)]

\* C6: a document whose status is FAILED has no object in the collection
\* tagged with its id.
C6_NoRecordsOfFailed ==
    \A d \in Docs : db[d].status = "FAILED" => RecordsOf(d) = 0

\* C7: a document whose status is COMPLETED has as many objects in the
\* collection as the chunker produced chunks for it.
C7_RecordsEqualChunks ==
    \A d \in Docs : db[d].status = "COMPLETED" => RecordsOf(d) = ChunkCount(d)

\* C8: once a stage has raised, control is in the except clause and the
\* invocation ends by raising, never by returning, and when it raises the
\* FAILED status with the message has been saved and the file deleted;
\* an invocation in which nothing raised returns.
C8_ErrorsReported ==
    /\ [](\A p \in Invocations :
            inv[p].e # None => inv[p].pc \in InHandler)
    /\ [][\A p \in Invocations :
            (Started(p) /\ ~Over(p) /\ inv'[p].pc = "done") =>
                IF inv[p].e # None
                THEN /\ inv'[p].outcome = "raised"
                     /\ db[DocOf(p)].status = "FAILED"
                     /\ db[DocOf(p)].error_message = inv[p].e
                     /\ ~fileExists[DocOf(p)]
                     /\ LET c == inv[p].calls
                        IN  /\ Len(c) >= 2
                            /\ c[Len(c) - 1] = "save"
                            /\ c[Len(c)] = "delete"
                ELSE inv'[p].outcome = "returned"]_vars

\* C9: the first call of an invocation is the save of PROCESSING, extract
\* is called only after it, and wherever the invocation stops between that
\* save and the final status write the persisted status is PROCESSING.
C9_ProcessingSavedBeforeStages ==
    \A p \in Invocations :
        /\ inv[p].pc \in MidPipeline => db[DocOf(p)].status = "PROCESSING"
        /\ \A k \in 1..Len(inv[p].calls) :
              inv[p].calls[k] = "extract" =>
                  (k > 1 /\ inv[p].calls[1] = "save")

\* C9 witness: an invocation stands between embedding and the index write
\* and the persisted status is PROCESSING.
C9_Witness ==
    \E p \in Invocations :
        /\ inv[p].pc = "connect"
        /\ inv[p].calls[2] = "extract"
        /\ db[DocOf(p)].status = "PROCESSING"

\* C10: the step by which an invocation returns is one save that writes
\* status COMPLETED, the timestamp, the page count of the extracted
\* document and the assembled metadata; before it the row is PROCESSING.
C10_SuccessWritesAll ==
    [][\A p \in Invocations :
          (inv[p].pc = "complete" /\ inv'[p].pc = "done") =>
              LET d == DocOf(p)
              IN  /\ db[d].status = "PROCESSING"
                  /\ db'[d].status = "COMPLETED"
                  /\ db'[d].processed_at = Some(now)
                  /\ db'[d].page_count = inv[p].docling_doc[1].pages
                  /\ db'[d].page_count = content[d].pages
                  /\ db'[d].metadata = inv[p].doc_metadata
                  /\ db'[d].metadata =
                        AssembleMetadata(get_upload_path(d), content[d].size,
                            markdown_output_path(TenantOf(d),
                                                 get_upload_path(d)),
                            image_dir_of(TenantOf(d)), content[d])]_vars

\* C10 witness: an invocation has returned and the row is COMPLETED with
\* the page count of the upload and a metadata map.
C10_Witness ==
    \E p \in Invocations :
        /\ Over(p) /\ inv[p].outcome = "returned" /\ LastOn(p)
        /\ db[DocOf(p)].status = "COMPLETED"
        /\ db[DocOf(p)].processed_at # None
        /\ db[DocOf(p)].page_count = content[DocOf(p)].pages
        /\ db[DocOf(p)].metadata # None

\* The records a retrieval filtered by tenant t returns.
RecordsOfTenant(t) == {o \in BagToSet(index) : o.tenant_id = t}

\* C11: every record of the index carries a tenant id, which is the tenant
\* of the document it was derived from, so the records filtered by one
\* tenant hold no record of a document of another tenant; and every record
\* a step adds carries the tenant of the document being ingested.
C11_TenantIsolation ==
    /\ [](/\ \A o \in BagToSet(index) :
                /\ o.tenant_id \in {TenantOf(d) : d \in Docs}
                /\ o.tenant_id = TenantOf(o.document_id)
          /\ \A d \in Docs :
                \A o \in RecordsOfTenant(TenantOf(d)) :
                    TenantOf(o.document_id) = TenantOf(d))
    /\ [][\A p \in Invocations :
             (inv[p].pc = "batch" /\ inv'[p].i # inv[p].i) =>
                 \E o \in BagToSet(index') :
                     /\ index' = index (+) SetToBag({o})
                     /\ o.document_id = DocOf(p)
                     /\ o.tenant_id = db[DocOf(p)].tenant]_vars

\* C11 witness: documents of both tenants have been ingested and each
\* tenant's filter returns records.
C11_Witness ==
    /\ RecordsOfTenant("t1") # {}
    /\ RecordsOfTenant("t2") # {}
    /\ \A p \in Invocations : Over(p) /\ inv[p].outcome = "returned"

\* pcs inside the scope that process_document opens at line 349
InOuterScope == {"call_add", "batch", "exit_store"}

\* pcs inside the scope that add_document_chunks opens at line 289
InInnerScope == {"batch"}

\* C12: outside every scope over its WeaviateService, whether the scope
\* ended normally, by an exception raised inside it, or by a failure of
\* __enter__, an invocation's service holds no client.
C12_ClientReleasedOnEveryExit ==
    \A p \in Invocations :
        inv[p].pc \notin InOuterScope => inv[p].client = "None"

\* C13: while the scope of process_document is still active and the scope
\* of add_document_chunks inside it has been exited, the connection the
\* outer scope acquired is still open.
C13_InnerExitKeepsConnection ==
    \A p \in Invocations :
        (inv[p].pc \in InOuterScope \ InInnerScope /\ ~inv[p].direct) =>
            inv[p].client = "connected"

\* The request of p went through the construction of its services and the
\* schema call in it was not stopped by a connection failure.
SchemaCallRan(p) ==
    /\ inv[p].pc \notin {"idle"}
    /\ inv[p].tenant_id # None
    /\ ~inv[p].direct
    /\ \A m \in ErrMsgs : inv[p].unhandled # Some(m)

\* C14: a call of _create_schema_if_not_exists completes without error
\* and leaves the collection in place, whether the collection was absent
\* or present before it, and however many calls came before.
C14_EnsureSchemaIdempotent ==
    \A p \in Invocations :
        SchemaCallRan(p) =>
            /\ inv[p].unhandled = None
            /\ collections = {class_name}

\* The request of p came from a user without a tenant and is over.
TenantlessOver(p) ==
    /\ inv[p].pc = "done"
    /\ inv[p].user # None
    /\ UserTenant(inv[p].user[1]) = None

\* C20: an upload request of a user without a tenant ends with the 400
\* response, with no exception leaving the view, and without a document
\* being processed.
C20_TenantlessUploadRejected ==
    \A p \in Invocations :
        TenantlessOver(p) =>
            /\ inv[p].unhandled = None
            /\ response(inv[p]) = Some(400)
            /\ inv[p].document_id = None

\* C15: a call of add_document_chunks on its own that is over either got
\* as many vectors as chunks, and when it returned the index holds one
\* record per chunk, or got lists of different lengths, and then it
\* raised and the index holds no record of the document.
C15_LengthsMustMatch ==
    \A p \in Invocations :
        (inv[p].direct /\ inv[p].pc = "done") =>
            LET n == Len(inv[p].chunks_with_pages)
            IN  IF n = Len(inv[p].embeddings)
                THEN inv[p].outcome = "returned" =>
                         RecordsOf(DocOf(p)) = n
                ELSE /\ inv[p].outcome = "raised"
                     /\ RecordsOf(DocOf(p)) = 0

\* the calls invocation p has made so far
CallsOf(p) == {inv[p].calls[k] : k \in 1..Len(inv[p].calls)}

\* the chunker finds no chunk in the upload of d
NoChunks(d) == Len(content[d].chunks) = 0

\* C16: the index never holds a record of a document without chunks, and
\* an invocation on such a document in which no stage failed went through
\* chunking, embedding and the index write without adding an object, and
\* returns by saving COMPLETED with the page count of the extracted
\* document.
C16_ZeroChunksCompletes ==
    /\ [](\A d \in Docs : NoChunks(d) => RecordsOf(d) = 0)
    /\ [][\A p \in Invocations :
             (inv[p].pc = "complete" /\ inv'[p].pc = "done"
                 /\ NoChunks(DocOf(p))) =>
                 /\ inv[p].chunks_with_pages = << >>
                 /\ inv[p].embeddings = << >>
                 /\ {"chunk_docling_document", "embed_chunks",
                     "add_document_chunks"} \subseteq CallsOf(p)
                 /\ "add_object" \notin CallsOf(p)
                 /\ index' = index
                 /\ inv'[p].outcome = "returned"
                 /\ db'[DocOf(p)].status = "COMPLETED"
                 /\ db'[DocOf(p)].page_count = content[DocOf(p)].pages]_vars

\* C16 witness: an invocation on a document without chunks has returned;
\* the row is COMPLETED with the page count of the upload and the index
\* holds no record of the document.
C16_Witness ==
    \E p \in Invocations :
        /\ Over(p) /\ inv[p].outcome = "returned"
        /\ NoChunks(DocOf(p))
        /\ db[DocOf(p)].status = "COMPLETED"
        /\ db[DocOf(p)].page_count = content[DocOf(p)].pages
        /\ db[DocOf(p)].page_count > 0
        /\ RecordsOf(DocOf(p)) = 0

\* The attempt of p is in its except clause because extract raised.
ExtractFailed(p) ==
    /\ inv[p].pc \in InHandler
    /\ "extract" \in CallsOf(p)
    /\ inv[p].docling_doc = None

\* C17: an attempt whose extraction failed has called neither the chunker
\* nor the encoder nor the index, none of its steps changes the index,
\* and when it re-raises the row is FAILED and the uploaded file is gone.
C17_ExtractionFailureShortCircuits ==
    /\ [](\A p \in Invocations :
             ExtractFailed(p) =>
                 /\ CallsOf(p) \cap {"stat", "chunk_docling_document",
                                     "embed_chunks", "connect",
                                     "add_document_chunks", "add_object"} = {}
                 /\ inv[p].chunks_with_pages = << >>
                 /\ inv[p].client = "None")
    /\ [][\A p \in Invocations :
             (ExtractFailed(p) /\ inv'[p] # inv[p]) =>
                 /\ index' = index
                 /\ inv'[p].pc = "done" =>
                        /\ inv'[p].outcome = "raised"
                        /\ db[DocOf(p)].status = "FAILED"
                        /\ ~fileExists[DocOf(p)]]_vars

\* The next call of process_document, in call order, is that of p.
NextToCall(p) ==
    /\ inv[p].pc = "ready"
    /\ \A q \in Invocations : q < p => inv[q].pc \notin {"idle", "ready"}

\* C18: nothing guards the start of the pipeline: a caller about to call
\* process_document on a document can do so whatever the persisted status
\* of the document is and whichever invocations on it are in flight.
C18_NoGuardOnStart ==
    \A p \in Invocations :
        NextToCall(p) => ENABLED Get(p, RaceDoc)

\* C18 witness: two invocations on one document have both written all
\* their index records; one failed afterwards and deleted the uploaded
\* file, the other returned after it, and the row says COMPLETED while the
\* file is gone.
C18_Witness ==
    \E p, q \in Invocations :
        /\ p # q
        /\ Over(p) /\ DocOf(p) = RaceDoc /\ inv[p].outcome = "returned"
        /\ Over(q) /\ DocOf(q) = RaceDoc /\ inv[q].outcome = "raised"
        /\ db[RaceDoc].status = "COMPLETED"
        /\ ~fileExists[RaceDoc]
        /\ ChunkCount(RaceDoc) > 0
        /\ RecordsOf(RaceDoc) = 2 * ChunkCount(RaceDoc)

\* C19: a step of an invocation on document A leaves the row and the file
\* of every other document as they are, adds or removes no record of
\* another document, and what it writes to A's row is the instance it
\* holds itself: PROCESSING, COMPLETED with its own pages and metadata, or
\* FAILED with its own exception.
C19_DifferentDocumentsIndependent ==
    [][\A p \in Invocations :
          (inv'[p] # inv[p] /\ inv'[p].document_id # None) =>
              LET a == inv'[p].document_id[1]
              IN  /\ \A d \in Docs \ {a} :
                        /\ db'[d] = db[d]
                        /\ fileExists'[d] = fileExists[d]
                  /\ \A o \in BagToSet(index) \cup BagToSet(index') :
                        o.document_id # a =>
                            CopiesIn(o, index') = CopiesIn(o, index)
                  /\ db'[a] # db[a] =>
                        db'[a] \in
                            {ProcessingInstance(inv[p].doc),
                             CompletedInstance(inv[p].doc, now, inv[p].pages,
                                               inv[p].doc_metadata),
                             FailedInstance(inv[p].doc, inv[p].e)}]_vars

\* C19 witness: invocations on two documents are in flight together: one
\* has written all its records and is about to save COMPLETED, the other
\* has failed, saved FAILED and deleted its own file.
C19_Witness ==
    \E p, q \in Invocations :
        /\ InFlight(p) /\ InFlight(q) /\ DocOf(p) # DocOf(q)
        /\ inv[p].pc = "complete"
        /\ inv[q].pc = "raise"
        /\ db[DocOf(p)].status = "PROCESSING"
        /\ fileExists[DocOf(p)]
        /\ RecordsOf(DocOf(p)) = ChunkCount(DocOf(p))
        /\ ChunkCount(DocOf(p)) > 0
        /\ db[DocOf(q)].status = "FAILED"
        /\ ~fileExists[DocOf(q)]

\* C21: the queryset a request on stored documents works with holds only
\* rows of the requesting user's tenant and is empty for a user without a
\* tenant; the instance a request goes on to write or delete is a row of
\* that queryset, and its step changes no other row.
C21_QuerysetWithinTenant ==
    [][\A p \in Invocations :
          /\ (inv[p].pc = "idle" /\ inv'[p].op # "none") =>
                LET u == inv'[p].user[1]
                    qs == inv'[p].queryset
                IN  /\ \A d \in qs :
                          d \in DOMAIN db /\ Some(db[d].tenant) = UserTenant(u)
                    /\ \A d \in DOMAIN db :
                          Some(db[d].tenant) = UserTenant(u) => d \in qs
                    /\ UserTenant(u) = None => qs = {}
                    /\ inv'[p].pc = "write" =>
                           /\ inv'[p].doc.id \in qs
                           /\ Some(inv'[p].doc.tenant) = UserTenant(u)
                    /\ db' = db
          /\ (inv[p].pc = "write" /\ inv'[p].pc = "done") =>
                LET a == inv[p].doc.id
                IN  /\ a \in inv[p].queryset
                    /\ Some(inv[p].doc.tenant) = UserTenant(inv[p].user[1])
                    /\ DOMAIN db \ {a} = DOMAIN db' \ {a}
                    /\ \A d \in DOMAIN db \ {a} : db'[d] = db[d]]_vars

\* C21 witness: a list request of a tenant's user got rows, while a row of
\* another tenant is stored and is not among them, and a destroy request
\* has deleted the rows of its queryset.
C21_Witness ==
    \E p, q \in Invocations :
        /\ inv[p].op = "list"
        /\ inv[p].http = Some(200)
        /\ inv[p].queryset # {}
        /\ \E d \in DOMAIN db :
              /\ Some(db[d].tenant) # UserTenant(inv[p].user[1])
              /\ d \notin inv[p].queryset
        /\ inv[q].op = "destroy"
        /\ inv[q].http = Some(204)
        /\ inv[q].queryset \cap DOMAIN db = {}

\* C22: the markdown paths that extract produced for two distinct
\* documents differ, so the artifact at a path extract returned for a
\* document is that document's.
C22_ArtifactPathsDistinct ==
    \A p, q \in Invocations :
        (/\ inv[p].markdown_path # None
         /\ inv[q].markdown_path # None
         /\ DocOf(p) # DocOf(q)) =>
            /\ inv[p].markdown_path # inv[q].markdown_path
            /\ artifacts[inv[p].markdown_path[1]] = DocOf(p)

\* C23: the i-th object an invocation submits to the index has the text
\* and the page number of the i-th chunk the chunker returned for the
\* document, and the vector of that chunk's text, which is the i-th
\* vector embed_chunks returned.
C23_OrderAndAlignment ==
    [][\A p \in Invocations :
          (~inv[p].direct /\ inv[p].pc = "batch"
              /\ inv'[p].i = inv[p].i + 1) =>
              LET d == DocOf(p)
                  k == inv'[p].i
                  chunks == chunk_docling_document(content[d])
              IN  \E o \in BagToSet(index') :
                      /\ index' = index (+) SetToBag({o})
                      /\ k <= Len(chunks)
                      /\ o.document_id = d
                      /\ o.content = chunks[k].text
                      /\ o.page_number = chunks[k].page_number
                      /\ o.vector = EmbedText(chunks[k].text)
                      /\ o.vector = inv[p].embeddings[k]
                      /\ Len(inv[p].embeddings) = Len(chunks)]_vars

\* C23 witness: an invocation has submitted both chunks of a document
\* whose chunks differ in text, page and vector, and the index holds the
\* two records.
C23_Witness ==
    \E p \in Invocations :
        /\ inv[p].pc = "batch"
        /\ inv[p].i = 2
        /\ inv[p].embeddings[1] # inv[p].embeddings[2]
        /\ inv[p].chunks_with_pages[1] # inv[p].chunks_with_pages[2]
        /\ RecordsOf(DocOf(p)) = 2

\* C24: every chunk the chunker step returned carries the page of the
\* first source block of the chunk, none when that block has no
\* provenance, and carries none exactly when no block of the chunk has
\* provenance.
C24_PageOfFirstBlock ==
    \A p \in Invocations :
        \A k \in 1..Len(inv[p].chunks_with_pages) :
            LET items == content[DocOf(p)].chunks[k].doc_items
                page == inv[p].chunks_with_pages[k].page_number
            IN  /\ page = IF items = << >> \/ Head(items) = << >>
                           THEN None
                           ELSE Some(Head(items)[1])
                /\ page = None <=>
                       \A j \in 1..Len(items) : items[j] = << >>

\* the invocations on d that ended by returning
Successes(d) ==
    {p \in Invocations :
        Over(p) /\ DocOf(p) = d /\ inv[p].outcome = "returned"}

\* C25: while no invocation on a document is in flight, the index holds
\* for it the number of its chunks times the number of invocations that
\* processed it successfully.
C25_ReingestionDuplicates ==
    \A d \in Docs :
        (\A p \in Invocations : InFlight(p) => DocOf(p) # d) =>
            RecordsOf(d) = Cardinality(Successes(d)) * ChunkCount(d)

IsPrefix(a, b) ==
    /\ Len(a) <= Len(b)
    /\ \A k \in 1..Len(a) : a[k] = b[k]

\* The calls of an invocation in which nothing fails and m objects are
\* added, in the order of lines 318-358.
StageOrder(m) ==
    <<"save", "extract", "stat", "chunk_docling_document", "embed_chunks",
      "connect", "add_document_chunks">>
    \o [k \in 1..m |-> "add_object"] \o <<"save">>

\* the calls of the except clause, lines 362-363
HandlerCalls == <<"save", "delete">>

\* C26: the calls of an invocation in which nothing has failed are an
\* initial part of the fixed order; once a call has failed the invocation
\* is in its except clause, the calls made up to the failure are an
\* initial part of the fixed order, and the only calls that follow are
\* those of the failure handling.
C26_FixedOrderShortCircuit ==
    /\ [](\A p \in Invocations :
             LET c == inv[p].calls
             IN  (Started(p) /\ ~inv[p].direct) =>
                     IF inv[p].e = None
                     THEN \E m \in 0..Len(c) : IsPrefix(c, StageOrder(m))
                     ELSE /\ inv[p].pc \in InHandler
                          /\ \E j \in 1..Len(c), m \in 0..Len(c) :
                                /\ IsPrefix(SubSeq(c, 1, j), StageOrder(m))
                                /\ IsPrefix(SubSeq(c, j + 1, Len(c)),
                                            HandlerCalls))
    /\ [][\A p \in Invocations :
             (inv[p].e # None /\ inv'[p].calls # inv[p].calls
                 /\ inv'[p].pc # "done") =>
                 \E h \in {"save", "delete"} :
                     inv'[p].calls = Append(inv[p].calls, h)]_vars

\* C26 witness: extract, the chunker and the encoder were called in that
\* order, the encoder failed, and the only calls after it are the
\* handler's save and delete.
C26_Witness ==
    \E p \in Invocations :
        /\ inv[p].e # None
        /\ inv[p].calls = <<"save", "extract", "stat",
                            "chunk_docling_document", "embed_chunks",
                            "save", "delete">>

\* how many times invocation p has called c
TimesCalled(p, c) ==
    Cardinality({k \in 1..Len(inv[p].calls) : inv[p].calls[k] = c})

Stages ==
    {"extract", "chunk_docling_document", "embed_chunks",
     "add_document_chunks"}

\* C27: within one invocation each of extract, the chunker, the encoder
\* and the index write is called at most once, whether or not a call has
\* failed.
C27_NoStageRetried ==
    \A p \in Invocations :
        \A c \in Stages : TimesCalled(p, c) <= 1

\* C27 witness: an invocation whose index write failed has handled the
\* failure, and its calls hold each of the four stages once.
C27_Witness ==
    \E p \in Invocations :
        /\ inv[p].pc = "raise"
        /\ ~inv[p].direct
        /\ \A c \in Stages : TimesCalled(p, c) = 1
        /\ TimesCalled(p, "add_object") >= 1
        /\ inv[p].i < Len(inv[p].chunks_with_pages)

\* C28: no step of an invocation other than its successful final save
\* changes the persisted page_count, metadata or processed_at of its
\* document, so a document that ends FAILED has them as they were when
\* the invocation started, whichever stage failed.
C28_FailureKeepsOtherColumns ==
    [][\A p \in Invocations :
          (Started(p) /\ ~inv[p].direct /\ inv'[p] # inv[p]
              /\ inv'[p].outcome # "returned") =>
              LET d == DocOf(p)
              IN  /\ db'[d].page_count = db[d].page_count
                  /\ db'[d].metadata = db[d].metadata
                  /\ db'[d].processed_at = db[d].processed_at]_vars

\* C29: a document being processed belongs to the tenant its service was
\* constructed for, the markdown path of its artifacts lies under that
\* tenant's directory, and every record of the index is stamped with the
\* tenant under whose directory the artifacts of its document were
\* written.
C29_ServiceTenantIsDocumentTenant ==
    /\ \A p \in Invocations :
          (Started(p) /\ ~inv[p].direct) =>
              /\ db[DocOf(p)].tenant = inv[p].tenant_id[1]
              /\ inv[p].markdown_path # None =>
                     inv[p].markdown_path[1][1] = db[DocOf(p)].tenant
    /\ \A o \in BagToSet(index) :
          \A x \in DOMAIN artifacts :
              artifacts[x] = o.document_id => x[1] = o.tenant_id

\* C30: no service holds a client that never connected, and a _connect on
\* whatever client a service holds either returns a connected client or
\* raises.
C30_FailedConnectLeavesNoClient ==
    \A p \in Invocations :
        /\ inv[p].client # "unconnected"
        /\ \A r \in connect(inv[p].client) :
              r.err = None => r.client = "connected"

====
